---- MODULE Spec2Model ----
(***************************************************************************)
(* Conversation context compression subsystem of chat-o-llama:             *)
(*   utils/context_analyzer.py      importance scoring, trigger metrics    *)
(*   utils/compression_strategies.py rolling window, summary, hybrid       *)
(*   utils/compression_engine.py    trigger, selection, cache, metrics     *)
(*   services/context_compressor.py the service entry point                *)
(*                                                                         *)
(* Scores and quality values are in hundredths (0.3 is 30), a ratio is a   *)
(* pair <<numerator, denominator>>.  Time is in hours; a timestamp is the  *)
(* string the code stores or passes, kept as <<date, separator, hour>>     *)
(* and compared the way SQLite compares text.                              *)
(***************************************************************************)
EXTENDS Integers, Sequences, FiniteSets, TLC

VARIABLES
    cfg,          \* the 'compression' configuration dict of the engine
    enabled,      \* ContextCompressor.enabled (read once at construction)
    tz,           \* offset of the server's local time from UTC, in hours
    messages,     \* the conversation handed to the calls
    conversation, \* its conversation_id (NoConv: none)
    now,          \* UTC wall clock, hours
    cache,        \* table compression_cache
    stats,        \* table conversation_compression_stats
    perf,         \* table compression_performance_metrics
    last          \* what the last call received, did and returned

vars == <<cfg, enabled, tz, messages, conversation, now, cache, stats, perf, last>>

----------------------------------------------------------------------------
(* Bounds of the model *)

MaxMsgs == 5          \* longest conversation of the strategy specification
MaxEngineMsgs == 4    \* longest conversation of the engine specification
MaxPreserve == 3      \* largest preserve_recent_count
MaxWindow == 2        \* largest rolling window size
MaxTier == 2          \* largest tier1_messages / tier2_messages
MaxCalls == 2         \* calls made on the engine in one run
MaxFaults == 1        \* store operations that fail during one call
MaxTicks == 1         \* clock advances in one run
MaxPosition == 21     \* largest position_from_end given to the analyzer
MaxQualityLen == 11   \* longest lists given to calculate_quality_score
MaxHashLen == 2       \* longest lists given to _create_compression_hash
MaxRequests == 2      \* concurrent compress_conversation requests
MaxCacheTicks == 3    \* clock advances while the requests run

----------------------------------------------------------------------------
(* Messages.  A content is one of a few sample texts; each operator below  *)
(* gives what the code computes on that text:                              *)
(*   "plain"     'Sounds good to me'                                       *)
(*   "question"  'How do I sort a list?'                                   *)
(*   "code"      '```print(1)```'                                          *)
(*   "generic"   'That is just a number'                                   *)
(*   "keyword"   'Please fix the bug'                                      *)
(*   "huge"      'lorem ipsum' 1150 times (13799 characters)               *)
(*   "empty"     ''                                                        *)
(*   "summary"   '[CONVERSATION SUMMARY]\nThey discussed sorting.'         *)
(*   "summary_failed"  '[CONVERSATION SUMMARY]\n[Summary generation        *)
(*                      failed: ...]'                                      *)

Roles == {"user", "assistant", "system"}

UserContents == {"plain", "question", "code", "generic", "keyword"}

Msg(r, c) == [role |-> r, content |-> c, is_summary |-> FALSE]

Min(a, b) == IF a < b THEN a ELSE b

Max(a, b) == IF a > b THEN a ELSE b

\* len(content)
ContentLen(c) ==
    CASE c = "plain" -> 17
      [] c = "question" -> 21
      [] c = "code" -> 14
      [] c = "generic" -> 21
      [] c = "keyword" -> 18
      [] c = "huge" -> 13799
      [] c = "empty" -> 0
      [] c = "summary" -> 46
      [] OTHER -> 108

\* estimate_tokens(content)
estimate_tokens(c) ==
    CASE c = "plain" -> 4
      [] c = "question" -> 5
      [] c = "code" -> 4
      [] c = "generic" -> 5
      [] c = "keyword" -> 4
      [] c = "huge" -> 3450
      [] c = "empty" -> 0
      [] c = "summary" -> 12
      [] OTHER -> 27

\* estimate_tokens("Role: <role>\n")
RoleTokens(r) == IF r = "assistant" THEN 4 ELSE 3

_is_question(c) == c = "question"

_contains_code(c) == c = "code"

HasImportantKeyword(c) == c = "keyword"

HasGenericPattern(c) == c = "generic"

----------------------------------------------------------------------------
(* Python sequence slicing: s[i:j] with negative indices counted from the  *)
(* end and out-of-range indices clamped.                                   *)

PyIndex(i, n) == IF i < 0 THEN Max(i + n, 0) ELSE Min(i, n)

PySlice(s, i, j) ==
    LET a == PyIndex(i, Len(s))
        b == PyIndex(j, Len(s))
    IN  IF a >= b THEN << >> ELSE SubSeq(s, a + 1, b)

\* s[i:]
PyFrom(s, i) == PySlice(s, i, Len(s))

\* s[:j]
PyUpTo(s, j) == PySlice(s, 0, j)

RECURSIVE SumSeq(_)
SumSeq(s) == IF s = << >> THEN 0 ELSE Head(s) + SumSeq(Tail(s))

----------------------------------------------------------------------------
(* ContextAnalyzer *)

\* the importance before the final min(1.0, ...), in hundredths, from what
\* analyze_message_importance reads of the message: its role, whether the
\* content is a question, contains code, is longer than 500 characters,
\* contains an important keyword, contains a generic pattern
ImportanceSum(role, question, code, long, keyword, generic, position_from_end) ==
    (IF role = "assistant" THEN 30 ELSE 50)
    + Max(0, 20 - position_from_end)
    + (IF role = "user" THEN 20 + (IF question THEN 10 ELSE 0) ELSE 0)
    + (IF code THEN 20 ELSE 0)
    + (IF long THEN 10 ELSE 0)
    + (IF keyword THEN 15 ELSE 0)
    - (IF generic THEN 20 ELSE 0)

\* a variant without the final min(1.0, importance)
ImportanceUnclamped(sum) == sum

\* return min(1.0, importance)
ImportanceClamped(sum) == Min(100, sum)

\* the inputs whose decimal sum is 0.5 while the doubles of the code give
\* 0.49999999999999994: the sum reaches 0.7 and "importance -= 0.2" rounds
\* down (0.7 - 0.2 is not 0.5 in binary floating point)
HalfRoundedDown(role, question, code, long, keyword, generic, position_from_end) ==
    /\ generic
    /\ ~keyword
    /\ \/ role = "user" /\ ~question /\ ~code /\ ~long /\ position_from_end >= 20
       \/ role = "assistant" /\ code /\ ~long /\ position_from_end = 0
       \/ role \notin {"user", "assistant"} /\ ~code /\ ~long /\ position_from_end = 0
       \/ role \notin {"user", "assistant"} /\ ~code /\ long /\ position_from_end = 10
       \/ role \notin {"user", "assistant"} /\ code /\ ~long /\ position_from_end >= 20

\* a variant that compares the decimal sums
ImportanceReachesHalfExact(role, question, code, long, keyword, generic, position_from_end) ==
    ImportanceClamped(ImportanceSum(role, question, code, long, keyword, generic,
                                    position_from_end)) >= 50

\* analyze_message_importance(...) >= 0.5, as the doubles of the code decide
ImportanceReachesHalf(role, question, code, long, keyword, generic, position_from_end) ==
    /\ ImportanceClamped(ImportanceSum(role, question, code, long, keyword, generic,
                                       position_from_end)) >= 50
    /\ ~HalfRoundedDown(role, question, code, long, keyword, generic, position_from_end)

\* analyze_message_importance: hundredths
analyze_message_importance(m, position_from_end) ==
    ImportanceClamped(
        ImportanceSum(m.role, _is_question(m.content), _contains_code(m.content),
                      ContentLen(m.content) > 500, HasImportantKeyword(m.content),
                      HasGenericPattern(m.content), position_from_end))

\* _estimate_message_tokens
_estimate_message_tokens(m) ==
    estimate_tokens(m.content) + RoleTokens(m.role) + 5

----------------------------------------------------------------------------
(* CompressionResult and the helpers of CompressionStrategy *)

NoMetadata == [cached |-> FALSE, recent_preserved |-> 0, messages_preserved |-> 0]

\* "no result" (None) in the shape of a CompressionResult
NoResult ==
    [present |-> FALSE, compressed_messages |-> << >>,
     original_token_count |-> 0, compressed_token_count |-> 0,
     compression_ratio |-> <<1, 1>>, compression_time_ms |-> 0,
     quality_score |-> 0, strategy_used |-> "none", metadata |-> NoMetadata]

RECURSIVE _calculate_tokens(_)
_calculate_tokens(msgs) ==
    IF msgs = << >> THEN 0
    ELSE estimate_tokens(Head(msgs).content) + _calculate_tokens(Tail(msgs))

\* a variant that divides without looking at original_tokens
StrategyRatioUnguarded(compressed_tokens, original_tokens) ==
    <<compressed_tokens, original_tokens>>

\* compressed_tokens / original_tokens if original_tokens > 0 else 1.0
StrategyRatio(compressed_tokens, original_tokens) ==
    IF original_tokens > 0 THEN <<compressed_tokens, original_tokens>>
    ELSE <<1, 1>>

RECURSIVE CountQuestions(_)
CountQuestions(msgs) ==
    IF msgs = << >> THEN 0
    ELSE (IF _is_question(Head(msgs).content) THEN 1 ELSE 0)
         + CountQuestions(Tail(msgs))

RECURSIVE CountCode(_)
CountCode(msgs) ==
    IF msgs = << >> THEN 0
    ELSE (IF _contains_code(Head(msgs).content) THEN 1 ELSE 0)
         + CountCode(Tail(msgs))

\* a variant that starts from 1.0 and does not clamp the result
QualityFromFullMarks(original, compressed, info) ==
    100 + (IF 10 * Len(compressed) > 8 * Len(original) THEN 0 - 20 ELSE 20)
    + (IF info.questions_preserved > 0 THEN 10 ELSE 0)
    + (IF info.code_preserved > 0 THEN 10 ELSE 0)
    + (IF info.recent_preserved > 0 THEN 10 ELSE 0)
    - (IF info.critical_loss > 0 THEN 20 ELSE 0)

\* calculate_quality_score: hundredths; info is the preserved_info dict
calculate_quality_score(original, compressed, info) ==
    IF original = << >> \/ compressed = << >> THEN 0
    ELSE
      LET lc == Len(compressed)
          lo == Len(original)
          shape == IF 10 * lc < lo THEN 0 - 30
                   ELSE IF 10 * lc < 3 * lo THEN 0 - 10
                   ELSE IF 10 * lc > 8 * lo THEN 0 - 20
                   ELSE 20
          q == IF info.questions_preserved > 0 THEN 10 ELSE 0
          c == IF info.code_preserved > 0 THEN 10 ELSE 0
          r == IF info.recent_preserved > 0 THEN 10 ELSE 0
          loss == IF info.critical_loss > 0 THEN 20 ELSE 0
      IN  Max(0, Min(100, 50 + shape + q + c + r - loss))

\* a variant that hashes the roles with the contents
HashWithRoles(msgs) == [i \in 1..Len(msgs) |-> <<msgs[i].role, msgs[i].content>>]

\* a variant that hashes the contents without their order
HashUnordered(msgs) == {msgs[i].content : i \in 1..Len(msgs)}

\* _create_compression_hash: md5 of the JSON list of the contents, taken to
\* be collision free, so the hash is the list of contents itself
_create_compression_hash(msgs) == [i \in 1..Len(msgs) |-> msgs[i].content]

----------------------------------------------------------------------------
(* RollingWindowStrategy *)

RollingCanCompress(c, msgs) ==
    c.rw_enabled /\ Len(msgs) > c.window_size + 2

\* a variant that takes the first p messages instead of the last p
RecentMessagesHead(msgs, p) == PyUpTo(msgs, p)

\* a variant that takes no message when p is 0
RecentMessagesNoneAtZero(msgs, p) == IF p = 0 THEN << >> ELSE PyFrom(msgs, 0 - p)

\* messages[-preserve_recent_count:]
RecentMessages(msgs, p) == PyFrom(msgs, 0 - p)

\* messages[:-preserve_recent_count]
OlderMessages(msgs, p) == PyUpTo(msgs, 0 - p)

RECURSIVE ImportantFrom(_, _, _)
\* the older messages from index i on whose importance reaches the threshold
ImportantFrom(older, threshold, i) ==
    IF i > Len(older) THEN << >>
    ELSE (IF analyze_message_importance(older[i], Len(older) - i) >= threshold
          THEN <<older[i]>> ELSE << >>)
         \o ImportantFrom(older, threshold, i + 1)

Score0(m) == analyze_message_importance(m, 0)

\* insert x behind the elements that score at least as high
InsertByScore(sorted, x) ==
    SelectSeq(sorted, LAMBDA y : Score0(y) >= Score0(x))
    \o <<x>>
    \o SelectSeq(sorted, LAMBDA y : Score0(y) < Score0(x))

RECURSIVE SortByScoreFrom(_, _, _)
SortByScoreFrom(s, i, acc) ==
    IF i > Len(s) THEN acc
    ELSE SortByScoreFrom(s, i + 1, InsertByScore(acc, s[i]))

\* scored_messages.sort(key=importance, reverse=True): stable, descending
SortByScore(s) == SortByScoreFrom(s, 1, << >>)

\* a variant that keeps none of the older messages
WindowLimitedNone(important, window_size) == << >>

\* the important messages after the window size limit
WindowLimited(important, window_size) ==
    IF Len(important) > window_size
    THEN PyUpTo(SortByScore(important), window_size)
    ELSE important

RollingKept(c, msgs, p) ==
    WindowLimited(ImportantFrom(OlderMessages(msgs, p), c.importance_threshold, 1),
                  c.window_size)

RollingWindowCompress(c, msgs, p, ms) ==
    LET recent == RecentMessages(msgs, p)
        older == OlderMessages(msgs, p)
        passed == ImportantFrom(older, c.importance_threshold, 1)
        important == WindowLimited(passed, c.window_size)
        compressed == important \o recent
        info == [questions_preserved |-> CountQuestions(passed),
                 code_preserved |-> CountCode(passed),
                 recent_preserved |-> Len(recent),
                 critical_loss |-> 0]
        original_tokens == _calculate_tokens(msgs)
        compressed_tokens == _calculate_tokens(compressed)
    IN  [present |-> TRUE, compressed_messages |-> compressed,
         original_token_count |-> original_tokens,
         compressed_token_count |-> compressed_tokens,
         compression_ratio |-> StrategyRatio(compressed_tokens, original_tokens),
         compression_time_ms |-> ms,
         quality_score |-> calculate_quality_score(msgs, compressed, info),
         strategy_used |-> "rolling_window",
         metadata |-> [cached |-> FALSE, recent_preserved |-> Len(recent),
                       messages_preserved |-> Len(important)]]

----------------------------------------------------------------------------
(* IntelligentSummaryStrategy.  The text generator is outside the          *)
(* subsystem: health is what factory.is_healthy() does ("healthy",         *)
(* "unhealthy", or "raises", as when the factory has no such method), gen  *)
(* is what factory.generate_response() does ("ok" or "raises").            *)

HealthOutcomes == {"healthy", "unhealthy", "raises"}

GenOutcomes == {"ok", "raises"}

\* a variant that does not ask the generator
SummaryCanCompressUnasked(c, health) == c.is_enabled

SummaryCanCompress(c, health) ==
    c.is_enabled /\ health = "healthy"

\* _generate_summary: every exception becomes the failure text
_generate_summary(gen) ==
    IF gen = "ok" THEN "summary" ELSE "summary_failed"

SummaryMessage(gen) ==
    [role |-> "assistant", content |-> _generate_summary(gen), is_summary |-> TRUE]

IntelligentSummaryCompress(c, msgs, p, gen, ms) ==
    LET recent == RecentMessages(msgs, p)
        older == OlderMessages(msgs, p)
        compressed == IF older = << >> THEN recent
                      ELSE <<SummaryMessage(gen)>> \o recent
        original_tokens == _calculate_tokens(msgs)
        compressed_tokens == _calculate_tokens(compressed)
        info == [questions_preserved |-> CountQuestions(recent),
                 code_preserved |-> CountCode(recent),
                 recent_preserved |-> Len(recent),
                 critical_loss |-> 0]
    IN  [present |-> TRUE, compressed_messages |-> compressed,
         original_token_count |-> original_tokens,
         compressed_token_count |-> compressed_tokens,
         compression_ratio |-> StrategyRatio(compressed_tokens, original_tokens),
         compression_time_ms |-> ms,
         quality_score |-> calculate_quality_score(msgs, compressed, info),
         strategy_used |-> "intelligent_summary",
         metadata |-> [cached |-> FALSE, recent_preserved |-> Len(recent),
                       messages_preserved |-> 0]]

----------------------------------------------------------------------------
(* HybridStrategy *)

HybridCanCompress(c, msgs, p) ==
    c.hy_enabled /\ Len(msgs) > c.tier1_messages + c.tier2_messages + p

Tier1Start(c, msgs) == Len(msgs) - c.tier1_messages

Tier2Start(c, msgs) == Tier1Start(c, msgs) - c.tier2_messages

\* a variant that keeps the last preserve_recent_count messages
HybridTier1Preserve(c, msgs) == PyFrom(msgs, Len(msgs) - c.preserve_recent_messages)

\* context.messages[tier1_start:]
HybridTier1(c, msgs) == PyFrom(msgs, Tier1Start(c, msgs))

\* context.messages[tier2_start:tier1_start] if tier2_start >= 0 else []
HybridTier2(c, msgs) ==
    IF Tier2Start(c, msgs) >= 0
    THEN PySlice(msgs, Tier2Start(c, msgs), Tier1Start(c, msgs))
    ELSE << >>

\* context.messages[:tier3_end] if tier3_end > 0 else []
HybridTier3(c, msgs) ==
    IF Tier2Start(c, msgs) > 0 THEN PyUpTo(msgs, Tier2Start(c, msgs)) ELSE << >>

\* tier 3: the summary strategy when it can compress and does not raise,
\* else a rolling window pass with preserve_recent_count = 2
HybridTier3Part(c, msgs, health, gen, inner, ms) ==
    LET tier3 == HybridTier3(c, msgs)
    IN  IF tier3 = << >> THEN << >>
        ELSE IF SummaryCanCompress(c, health) /\ inner # "summary"
        THEN IntelligentSummaryCompress(c, tier3, 0, gen, ms).compressed_messages
        ELSE RollingWindowCompress(c, tier3, 2, ms).compressed_messages

\* tier 2: the messages whose importance at position 0 is at least 0.4
HybridTier2Part(c, msgs) ==
    SelectSeq(HybridTier2(c, msgs), LAMBDA m : Score0(m) >= 40)

HybridCompress(c, msgs, health, gen, inner, ms) ==
    LET tier1 == HybridTier1(c, msgs)
        tier2kept == HybridTier2Part(c, msgs)
        compressed == HybridTier3Part(c, msgs, health, gen, inner, ms)
                      \o tier2kept \o tier1
        info == [questions_preserved |-> CountQuestions(tier2kept) + CountQuestions(tier1),
                 code_preserved |-> CountCode(tier2kept) + CountCode(tier1),
                 recent_preserved |-> Len(tier1),
                 critical_loss |-> 0]
        original_tokens == _calculate_tokens(msgs)
        compressed_tokens == _calculate_tokens(compressed)
    IN  [present |-> TRUE, compressed_messages |-> compressed,
         original_token_count |-> original_tokens,
         compressed_token_count |-> compressed_tokens,
         compression_ratio |-> StrategyRatio(compressed_tokens, original_tokens),
         compression_time_ms |-> ms,
         quality_score |-> calculate_quality_score(msgs, compressed, info),
         strategy_used |-> "hybrid",
         metadata |-> [cached |-> FALSE, recent_preserved |-> 0,
                       messages_preserved |-> 0]]

----------------------------------------------------------------------------
(* The strategy registry *)

StrategyNames == <<"rolling_window", "intelligent_summary", "hybrid">>

StrategyEnabled(c, name) ==
    CASE name = "rolling_window" -> c.rw_enabled
      [] name = "intelligent_summary" -> c.is_enabled
      [] OTHER -> c.hy_enabled

\* get_available_strategies: the enabled ones, in the fixed order
get_available_strategies(c) ==
    SelectSeq(StrategyNames, LAMBDA n : StrategyEnabled(c, n))

\* strategy.can_compress(context) of the named strategy
can_compress(c, name, msgs, p, health) ==
    CASE name = "rolling_window" -> RollingCanCompress(c, msgs)
      [] name = "intelligent_summary" -> SummaryCanCompress(c, health)
      [] OTHER -> HybridCanCompress(c, msgs, p)

\* strategy.compress(context) of the named strategy
compress(c, name, msgs, p, health, gen, inner, ms) ==
    CASE name = "rolling_window" -> RollingWindowCompress(c, msgs, p, ms)
      [] name = "intelligent_summary" -> IntelligentSummaryCompress(c, msgs, p, gen, ms)
      [] OTHER -> HybridCompress(c, msgs, health, gen, inner, ms)

----------------------------------------------------------------------------
(* Timestamps.  CURRENT_TIMESTAMP and datetime('now') give the UTC text    *)
(* 'YYYY-MM-DD HH:MM:SS'; datetime.now().isoformat() gives the local text  *)
(* 'YYYY-MM-DDTHH:MM:SS.ffffff'.  A text is <<date, separator, hour>> with *)
(* separator 0 for ' ' and 1 for 'T' (' ' sorts before 'T').               *)

SqlUtc(t) == <<t \div 24, 0, t % 24>>

IsoLocal(t, offset) == <<(t + offset) \div 24, 1, (t + offset) % 24>>

\* a > b as SQLite compares two texts
TextGreater(a, b) ==
    \/ a[1] > b[1]
    \/ a[1] = b[1] /\ a[2] > b[2]
    \/ a[1] = b[1] /\ a[2] = b[2] /\ a[3] > b[3]

----------------------------------------------------------------------------
(* CompressionEngine.  conversation_id is NoConv for None.  faults is the  *)
(* set of store operations that raise during the call:                     *)
(*   "recent" the query of _recently_compressed, "lookup" the SELECT and   *)
(*   "touch" the UPDATE of _get_cached_compression, "cache_put",           *)
(*   "stats_put" and "perf_put" the three INSERTs.                         *)

NoConv == 0 - 1

StoreOps == {"recent", "lookup", "touch", "cache_put", "stats_put", "perf_put"}

\* ContextAnalyzer.analyze_conversation: total_tokens
TotalTokens(msgs) ==
    SumSeq([i \in 1..Len(msgs) |-> _estimate_message_tokens(msgs[i])])

\* ContextAnalyzer._should_compress on the metrics of the conversation:
\* the compression_candidate flag (max_context_tokens is the default 4096)
compression_candidate(c, msgs) ==
    /\ msgs # << >>
    /\ \/ Len(msgs) >= c.trigger_message_count
       \/ TotalTokens(msgs) >= c.trigger_token_threshold
       \/ TotalTokens(msgs) * 100 > 80 * 4096

_recently_compressed(st, conv, t, offset, faults) ==
    /\ "recent" \notin faults
    /\ \E i \in 1..Len(st) :
          /\ st[i].conversation_id = conv
          /\ TextGreater(st[i].compression_timestamp, IsoLocal(t - 1, offset))

\* should_compress: <<decision, reason>>
should_compress(c, msgs, conv, st, t, offset, faults) ==
    IF ~c.enabled THEN <<FALSE, "compression_disabled">>
    ELSE IF msgs = << >> THEN <<FALSE, "no_messages">>
    ELSE IF conv # NoConv /\ _recently_compressed(st, conv, t, offset, faults)
    THEN <<FALSE, "recently_compressed">>
    ELSE IF compression_candidate(c, msgs)
            /\ TotalTokens(msgs) >= c.trigger_token_threshold
    THEN <<TRUE, "token_threshold">>
    ELSE IF compression_candidate(c, msgs)
            /\ Len(msgs) >= c.trigger_message_count
    THEN <<TRUE, "message_threshold">>
    ELSE IF compression_candidate(c, msgs)
            /\ TotalTokens(msgs) * 100 > c.trigger_utilization_percent * 4096
    THEN <<TRUE, "utilization_threshold">>
    ELSE <<FALSE, "no_triggers">>

RECURSIVE FirstCan(_, _, _, _, _)
\* the first name from index i on whose strategy can compress, or "none"
FirstCan(c, names, msgs, health, i) ==
    IF i > Len(names) THEN "none"
    ELSE IF can_compress(c, names[i], msgs, c.preserve_recent_messages, health)
    THEN names[i]
    ELSE FirstCan(c, names, msgs, health, i + 1)

\* a variant that ignores the configured preference
_select_best_strategyUnpreferred(c, msgs, health) ==
    FirstCan(c, get_available_strategies(c), msgs, health, 1)

\* _select_best_strategy: a strategy name, or "none" for None
_select_best_strategy(c, msgs, health) ==
    LET available == get_available_strategies(c)
    IN  IF available = << >> THEN "none"
        ELSE IF /\ StrategyEnabled(c, c.strategy)
                /\ can_compress(c, c.strategy, msgs, c.preserve_recent_messages, health)
        THEN c.strategy
        ELSE FirstCan(c, available, msgs, health, 1)

\* json.dumps / json.loads of a message list
JsonDumps(msgs) == <<"json", msgs>>

JsonLoads(text) == text[2]

\* the rows the SELECT of _get_cached_compression may return: same hash,
\* expires_at > datetime('now'), newest created_at
CacheCandidates(ca, msgs, t) ==
    LET live == {i \in 1..Len(ca) :
                    /\ ca[i].context_hash = _create_compression_hash(msgs)
                    /\ TextGreater(ca[i].expires_at, SqlUtc(t))}
    IN  {i \in live : \A j \in live : ~TextGreater(ca[j].created_at, ca[i].created_at)}

\* the CompressionResult built from a cache row
CachedResult(row) ==
    [present |-> TRUE, compressed_messages |-> JsonLoads(row.compressed_context),
     original_token_count |-> row.original_token_count,
     compressed_token_count |-> row.compressed_token_count,
     compression_ratio |-> <<row.compressed_token_count, row.original_token_count>>,
     compression_time_ms |-> 0,
     quality_score |-> 80,
     strategy_used |-> row.compression_strategy,
     metadata |-> [cached |-> TRUE, recent_preserved |-> 0, messages_preserved |-> 0]]

\* a variant that still returns the row when the access-count update fails
_get_cached_compressionStale(ca, pick, faults) ==
    IF "lookup" \in faults \/ pick = 0 THEN [result |-> NoResult, cache |-> ca]
    ELSE [result |-> CachedResult(ca[pick]), cache |-> ca]

\* _get_cached_compression with the SELECT returning row pick (0: no row):
\* the result and the table afterwards
_get_cached_compression(ca, pick, faults) ==
    IF "lookup" \in faults \/ pick = 0 THEN [result |-> NoResult, cache |-> ca]
    ELSE IF "touch" \in faults THEN [result |-> NoResult, cache |-> ca]
    ELSE LET touched == [ca EXCEPT ![pick].access_count = @ + 1]
         IN  IF ca[pick].original_token_count = 0
             THEN [result |-> NoResult, cache |-> touched]
             ELSE [result |-> CachedResult(ca[pick]), cache |-> touched]

\* a variant that inserts only when the table has no row with the hash
_cache_compression_resultIfAbsent(ca, result, msgs, conv, t, offset, ttl, faults) ==
    IF \/ "cache_put" \in faults
       \/ conv = NoConv
       \/ \E i \in 1..Len(ca) : ca[i].context_hash = _create_compression_hash(msgs)
    THEN ca
    ELSE Append(ca, [id |-> Len(ca) + 1,
                     conversation_id |-> conv,
                     context_hash |-> _create_compression_hash(msgs),
                     compressed_context |-> JsonDumps(result.compressed_messages),
                     original_token_count |-> result.original_token_count,
                     compressed_token_count |-> result.compressed_token_count,
                     compression_strategy |-> result.strategy_used,
                     created_at |-> SqlUtc(t),
                     expires_at |-> IsoLocal(t + ttl, offset),
                     access_count |-> 0])

\* _cache_compression_result: the table afterwards
_cache_compression_result(ca, result, msgs, conv, t, offset, ttl, faults) ==
    IF "cache_put" \in faults \/ conv = NoConv THEN ca
    ELSE Append(ca, [id |-> Len(ca) + 1,
                     conversation_id |-> conv,
                     context_hash |-> _create_compression_hash(msgs),
                     compressed_context |-> JsonDumps(result.compressed_messages),
                     original_token_count |-> result.original_token_count,
                     compressed_token_count |-> result.compressed_token_count,
                     compression_strategy |-> result.strategy_used,
                     created_at |-> SqlUtc(t),
                     expires_at |-> IsoLocal(t + ttl, offset),
                     access_count |-> 0])

\* _log_compression_metrics: the table afterwards
_log_compression_metrics(st, result, conv, reason, t, faults) ==
    IF "stats_put" \in faults \/ conv = NoConv THEN st
    ELSE Append(st, [conversation_id |-> conv,
                     compression_timestamp |-> SqlUtc(t),
                     compression_strategy |-> result.strategy_used,
                     messages_compressed |-> Len(result.compressed_messages),
                     triggered_by |-> reason])

\* _store_performance_metrics: the table afterwards
_store_performance_metrics(pf, result, strategy_name, success, error_message, faults) ==
    IF "perf_put" \in faults THEN pf
    ELSE Append(pf, [compression_strategy |-> strategy_name,
                     input_token_count |-> result.original_token_count,
                     success |-> success,
                     error_message |-> error_message])

----------------------------------------------------------------------------
(* compress_conversation.  e is what the surroundings do during the call:  *)
(*   e.health, e.gen   the text generator (see above)                      *)
(*   e.raises          "none", or the place where the code raises:         *)
(*                     "analyzer" (analyze_conversation), "strategy" (the  *)
(*                     compress of the selected strategy), "summary" (the  *)
(*                     summary strategy run by Hybrid for tier 3),         *)
(*                     "generator" (generate_response: e.gen is "raises")  *)
(*   e.faults          the store operations that raise                     *)
(*   e.ms              the measured compression_time_ms                    *)
(*   e.pick            the row the cache SELECT returns, 0 for none        *)
(* The value is the outcome: what was returned, what was done, and the     *)
(* three tables afterwards.  force_strategy is "none" for None.            *)

Outcome(escaped, decision, hit, selected, ran, raised, result, ca, st, pf, failed) ==
    [escaped |-> escaped, decision |-> decision, hit |-> hit,
     selected |-> selected, ran |-> ran, raised |-> raised, result |-> result,
     cache |-> ca, stats |-> st, perf |-> pf, failed |-> failed]

\* should_compress gets as far as the analyzer
ReachesAnalyzer(c, msgs, conv, st, t, offset, faults) ==
    /\ c.enabled
    /\ msgs # << >>
    /\ ~(conv # NoConv /\ _recently_compressed(st, conv, t, offset, faults))

\* the store operations of should_compress that raised
FailedInDecision(c, msgs, conv, faults) ==
    IF c.enabled /\ msgs # << >> /\ conv # NoConv
    THEN faults \cap {"recent"} ELSE {}

\* a variant that stores the failed run as a success
StrategyFailedAsSuccess(name, decision, ca, st, pf, e, failedSoFar) ==
    Outcome(FALSE, decision, FALSE, name, TRUE, TRUE, NoResult, ca, st,
            _store_performance_metrics(pf, NoResult, name, TRUE, "", e.faults),
            failedSoFar \cup (e.faults \cap {"perf_put"}))

\* lines 121-124: the except branch; "error" is str(e)
StrategyFailed(name, decision, ca, st, pf, e, failedSoFar) ==
    Outcome(FALSE, decision, FALSE, name, TRUE, TRUE, NoResult, ca, st,
            _store_performance_metrics(pf, NoResult, name, FALSE, "error", e.faults),
            failedSoFar \cup (e.faults \cap {"perf_put"}))

\* lines 96-124: run the strategy, log, cache, store metrics
ExecuteStrategy(c, msgs, conv, name, decision, ca, st, pf, t, offset, e, failedSoFar) ==
    IF e.raises = "strategy"
    THEN StrategyFailed(name, decision, ca, st, pf, e, failedSoFar)
    ELSE
      LET result == compress(c, name, msgs, c.preserve_recent_messages,
                             e.health, e.gen, e.raises, e.ms)
          st2 == _log_compression_metrics(st, result, conv, decision[2], t, e.faults)
          ca2 == IF c.cache_enabled
                 THEN _cache_compression_result(ca, result, msgs, conv, t, offset,
                                                c.cache_ttl_hours, e.faults)
                 ELSE ca
          pf2 == _store_performance_metrics(pf, result, name, TRUE, "", e.faults)
          attempted == {"stats_put", "perf_put"}
                       \cup (IF c.cache_enabled THEN {"cache_put"} ELSE {})
      IN  Outcome(FALSE, decision, FALSE, name, TRUE, FALSE, result, ca2, st2, pf2,
                  failedSoFar \cup (e.faults \cap attempted))

compress_conversation(c, msgs, conv, force_strategy, ca, st, pf, t, offset, e) ==
    LET decision == should_compress(c, msgs, conv, st, t, offset, e.faults)
        failed1 == FailedInDecision(c, msgs, conv, e.faults)
        forced == force_strategy # "none"
        lookup == _get_cached_compression(ca, e.pick, e.faults)
        tried == c.cache_enabled /\ ~forced
        failed2 == failed1 \cup
                   (IF ~tried THEN {}
                    ELSE IF "lookup" \in e.faults THEN {"lookup"}
                    ELSE IF e.pick # 0 /\ "touch" \in e.faults THEN {"touch"}
                    ELSE {})
        ca1 == IF tried THEN lookup.cache ELSE ca
        name == IF forced THEN force_strategy
                ELSE _select_best_strategy(c, msgs, e.health)
    IN  IF msgs = << >>
        THEN Outcome(FALSE, <<FALSE, "no_messages">>, FALSE, "none", FALSE, FALSE,
                     NoResult, ca, st, pf, {})
        ELSE IF e.raises = "analyzer"
                /\ ReachesAnalyzer(c, msgs, conv, st, t, offset, e.faults)
        THEN Outcome(TRUE, <<FALSE, "raised">>, FALSE, "none", FALSE, FALSE,
                     NoResult, ca, st, pf, failed1)
        ELSE IF ~decision[1] /\ ~forced
        THEN Outcome(FALSE, decision, FALSE, "none", FALSE, FALSE,
                     NoResult, ca, st, pf, failed1)
        ELSE IF tried /\ lookup.result.present
        THEN Outcome(FALSE, decision, TRUE, "none", FALSE, FALSE,
                     lookup.result, ca1, st, pf, failed2)
        ELSE IF name = "none"
        THEN Outcome(FALSE, decision, FALSE, "none", FALSE, FALSE,
                     NoResult, ca1, st, pf, failed2)
        ELSE ExecuteStrategy(c, msgs, conv, name, decision, ca1, st, pf, t, offset,
                             e, failed2)

----------------------------------------------------------------------------
(* ContextCompressor.compress_context: the returned pair (messages,        *)
(* metadata) and the outcome of the engine call it made, if any.           *)

NoMeta == [present |-> FALSE, compression_applied |-> FALSE, reason |-> "none"]

Meta(applied, reason) ==
    [present |-> TRUE, compression_applied |-> applied, reason |-> reason]

Untouched(decision, ca, st, pf, failed) ==
    Outcome(FALSE, decision, FALSE, "none", FALSE, FALSE, NoResult, ca, st, pf, failed)

\* a variant of the early return that reports a reason
SkippedWithReason(msgs, ca, st, pf) ==
    [messages |-> msgs, meta |-> Meta(FALSE, "compression_disabled"),
     called |-> FALSE,
     engine |-> Untouched(<<FALSE, "not_asked">>, ca, st, pf, {})]

\* lines 45-51: return messages, None
Skipped(msgs, ca, st, pf) ==
    [messages |-> msgs, meta |-> NoMeta, called |-> FALSE,
     engine |-> Untouched(<<FALSE, "not_asked">>, ca, st, pf, {})]

\* a variant that returns an empty list when the engine gave no result
AfterEngineEmpty(msgs, decision, eng) ==
    IF eng.result.present
    THEN [messages |-> eng.result.compressed_messages,
          meta |-> Meta(TRUE, IF decision[1] THEN decision[2] ELSE "forced"),
          called |-> TRUE, engine |-> eng]
    ELSE [messages |-> << >>, meta |-> Meta(FALSE, "compression_failed"),
          called |-> TRUE, engine |-> eng]

\* lines 76-105: what is returned after the engine call
AfterEngine(msgs, decision, eng) ==
    IF eng.result.present
    THEN [messages |-> eng.result.compressed_messages,
          meta |-> Meta(TRUE, IF decision[1] THEN decision[2] ELSE "forced"),
          called |-> TRUE, engine |-> eng]
    ELSE [messages |-> msgs, meta |-> Meta(FALSE, "compression_failed"),
          called |-> TRUE, engine |-> eng]

compress_context(on, c, msgs, conv, force, ca, st, pf, t, offset, e) ==
    LET decision == should_compress(c, msgs, conv, st, t, offset, e.faults)
        failed1 == FailedInDecision(c, msgs, conv, e.faults)
    IN  IF ~on /\ ~force THEN Skipped(msgs, ca, st, pf)
        ELSE IF msgs = << >> THEN Skipped(msgs, ca, st, pf)
        ELSE IF e.raises = "analyzer"
                /\ ReachesAnalyzer(c, msgs, conv, st, t, offset, e.faults)
        THEN [messages |-> msgs, meta |-> Meta(FALSE, "compression_error"),
              called |-> FALSE,
              engine |-> Untouched(<<FALSE, "raised">>, ca, st, pf, failed1)]
        ELSE IF ~decision[1] /\ ~force
        THEN [messages |-> msgs, meta |-> Meta(FALSE, decision[2]),
              called |-> FALSE,
              engine |-> Untouched(decision, ca, st, pf, failed1)]
        ELSE AfterEngine(msgs, decision,
                         compress_conversation(c, msgs, conv, "none", ca, st, pf,
                                               t, offset, e))

\* cleanup_expired_cache: DELETE ... WHERE expires_at < datetime('now')
cleanup_expired_cache(ca, t, failing) ==
    IF failing THEN ca
    ELSE SelectSeq(ca, LAMBDA row : ~TextGreater(SqlUtc(t), row.expires_at))

----------------------------------------------------------------------------
(* The state machine *)

Config(on, cacheOn, preferred, rw, is, hy, window, threshold, preserve, tier1, tier2, count, tokens, percent) ==
    [enabled |-> on, cache_enabled |-> cacheOn, cache_ttl_hours |-> 24,
     strategy |-> preferred,
     rw_enabled |-> rw, is_enabled |-> is, hy_enabled |-> hy,
     window_size |-> window, importance_threshold |-> threshold,
     preserve_recent_messages |-> preserve,
     tier1_messages |-> tier1, tier2_messages |-> tier2,
     trigger_message_count |-> count, trigger_token_threshold |-> tokens,
     trigger_utilization_percent |-> percent]

\* the engine with its triggers at <<3 messages, 3000 tokens, 80%>>, the
\* cache on, and every choice of the strategies
StrategyChoices ==
    {Config(TRUE, TRUE, preferred, rw, is, hy, 1, 30, 1, 1, 1, 3, 3000, 80) :
        preferred \in {"rolling_window", "intelligent_summary", "hybrid"},
        rw \in BOOLEAN, is \in BOOLEAN, hy \in BOOLEAN}

\* trigger settings: <<message count, token threshold, utilization percent>>
TriggerSettings == {<<3, 3000, 80>>, <<100, 5000, 80>>, <<100, 5000, 90>>}

\* the default strategies under every choice of enabled, cache and triggers
SwitchChoices ==
    {Config(on, cacheOn, "rolling_window", TRUE, FALSE, FALSE, 1, 30, 1, 1, 1,
            tr[1], tr[2], tr[3]) :
        on \in BOOLEAN, cacheOn \in BOOLEAN, tr \in TriggerSettings}

EngineConfigs == StrategyChoices \cup SwitchChoices

RECURSIVE Alternating(_)
\* n messages, a user question and an assistant generic reply in turn
Alternating(n) ==
    IF n = 0 THEN << >>
    ELSE Append(Alternating(n - 1),
                IF n % 2 = 1 THEN Msg("user", "question")
                ELSE Msg("assistant", "generic"))

\* n user messages with empty content
Empties(n) == [i \in 1..n |-> Msg("user", "empty")]

EngineConversations ==
    {Alternating(n) : n \in {0, MaxEngineMsgs - 2, MaxEngineMsgs}}
    \cup {<<Msg("user", "huge")>>, Empties(MaxEngineMsgs)}

ConvIds == {NoConv, 1}

Env(health, gen, raises, faults, ms, pick) ==
    [health |-> health, gen |-> gen, raises |-> raises, faults |-> faults,
     ms |-> ms, pick |-> pick]

\* what a call leaves in last: the outcome without the tables
Report(o) ==
    [escaped |-> o.escaped, decision |-> o.decision, hit |-> o.hit,
     selected |-> o.selected, ran |-> o.ran, raised |-> o.raised,
     result |-> o.result, failed |-> o.failed]

NoReport ==
    [escaped |-> FALSE, decision |-> <<FALSE, "none">>, hit |-> FALSE,
     selected |-> "none", ran |-> FALSE, raised |-> FALSE,
     result |-> NoResult, failed |-> {}]

Last(op, force, p, e, report, returned, meta, called) ==
    [op |-> op, n |-> last.n + 1, force |-> force, p |-> p,
     health |-> e.health, gen |-> e.gen, raises |-> e.raises,
     out |-> report, returned |-> returned, meta |-> meta, called |-> called,
     cacheLen |-> Len(cache), statsLen |-> Len(stats), perfLen |-> Len(perf)]

\* the clock at the start, in hours: 23:00 UTC of day 1
StartHour == 24 + 23

\* the configurations and conversations a run starts from: every choice of
\* the strategies on the long conversation, and the default strategies under
\* every choice of the switches on every conversation and conversation id
Init ==
    /\ \/ /\ cfg \in StrategyChoices
          /\ messages = Alternating(MaxEngineMsgs)
          /\ conversation = NoConv
       \/ /\ cfg \in SwitchChoices
          /\ messages \in EngineConversations
          /\ conversation \in ConvIds
    /\ enabled = cfg.enabled
    /\ tz = 0
    /\ now = StartHour
    /\ cache = << >>
    /\ stats = << >>
    /\ perf = << >>
    /\ last = [op |-> "init", n |-> 0, force |-> "none", p |-> 0,
               health |-> "unhealthy", gen |-> "ok", raises |-> "none",
               out |-> NoReport, returned |-> << >>, meta |-> NoMeta,
               called |-> FALSE, cacheLen |-> 0, statsLen |-> 0, perfLen |-> 0]

\* the failures the query of _recently_compressed can show: it is run, and
\* its failure changes the answer, only when stats hold a row of the
\* conversation
RecentFaults ==
    IF cfg.enabled /\ conversation # NoConv /\ messages # << >>
       /\ \E i \in 1..Len(stats) : stats[i].conversation_id = conversation
    THEN {{}, {"recent"}} ELSE {{}}

\* the call gets past the trigger decision
Going(force, f0) ==
    /\ messages # << >>
    /\ \/ force # "none"
       \/ should_compress(cfg, messages, conversation, stats, now, tz, f0)[1]

\* the rows the cache SELECT of this call may return (0: none)
Picks(force, going) ==
    IF going /\ cfg.cache_enabled /\ force = "none"
       /\ CacheCandidates(cache, messages, now) # {}
    THEN CacheCandidates(cache, messages, now)
    ELSE {0}

\* the store operations past the decision whose failure the call can meet
LaterOps(force, going) ==
    IF ~going THEN {}
    ELSE {"perf_put"}
         \cup (IF conversation # NoConv THEN {"stats_put"} ELSE {})
         \cup (IF conversation # NoConv /\ cfg.cache_enabled
               THEN {"cache_put"} ELSE {})
         \cup (IF Picks(force, going) # {0} THEN {"lookup", "touch"} ELSE {})

FaultSets(force, going, f0) ==
    {f0 \cup f : f \in {g \in SUBSET LaterOps(force, going) :
                           Cardinality(f0 \cup g) <= MaxFaults}}

\* the places where the call can meet an exception of the code
RaiseSeen(force, going, f0) ==
    {"none"}
    \cup (IF ReachesAnalyzer(cfg, messages, conversation, stats, now, tz, f0)
          THEN {"analyzer"} ELSE {})
    \cup (IF going THEN {"strategy"} ELSE {})
    \cup (IF going /\ (force = "intelligent_summary"
                       \/ (cfg.is_enabled /\ force # "rolling_window"))
          THEN {"generator"} ELSE {})
    \cup (IF going /\ cfg.is_enabled /\ cfg.hy_enabled
             /\ force \in {"none", "hybrid"}
          THEN {"summary"} ELSE {})

\* the answers of is_healthy() the call can observe
HealthSeen(force, going) ==
    IF going /\ cfg.is_enabled /\ force \in {"none", "hybrid"}
    THEN HealthOutcomes ELSE {"unhealthy"}

\* the measured compression_time_ms of a strategy run
ElapsedMs == {3}

\* what the surroundings can do during a call with this force_strategy
CallEnvs(force) ==
    UNION {
      LET going == Going(force, f0)
      IN  {Env(health, IF raises = "generator" THEN "raises" ELSE "ok",
               raises, faults, ms, pick) :
             health \in HealthSeen(force, going),
             raises \in RaiseSeen(force, going, f0),
             faults \in FaultSets(force, going, f0),
             ms \in ElapsedMs,
             pick \in Picks(force, going)}
      : f0 \in RecentFaults }

ForceStrategies == {"none", "rolling_window", "intelligent_summary", "hybrid"}

\* engine.should_compress(messages, conversation_id)
CallShouldCompress ==
    /\ last.n < MaxCalls
    /\ \E faults \in RecentFaults :
          LET e == Env("unhealthy", "ok", "none", faults, 0, 0)
              d == should_compress(cfg, messages, conversation, stats, now, tz, faults)
          IN  last' = Last("should_compress", "none", 0, e,
                           [NoReport EXCEPT !.decision = d,
                              !.failed = FailedInDecision(cfg, messages,
                                                          conversation, faults)],
                           << >>, NoMeta, FALSE)
    /\ UNCHANGED <<cfg, enabled, tz, messages, conversation, now, cache, stats, perf>>

\* engine.compress_conversation(messages, conversation_id, force_strategy=...)
CallCompressConversation ==
    /\ last.n < MaxCalls
    /\ \E force \in ForceStrategies :
        \E e \in CallEnvs(force) :
          \E o \in {compress_conversation(cfg, messages, conversation, force,
                                           cache, stats, perf, now, tz, e)} :
              /\ last' = Last("compress_conversation", force,
                              cfg.preserve_recent_messages, e, Report(o),
                              << >>, NoMeta, TRUE)
              /\ cache' = o.cache
              /\ stats' = o.stats
              /\ perf' = o.perf
    /\ UNCHANGED <<cfg, enabled, tz, messages, conversation, now>>

\* compressor.compress_context(messages, conversation_id, force=...)
CallCompressContext ==
    /\ last.n < MaxCalls
    /\ \E force \in BOOLEAN :
        \E e \in (IF enabled \/ force THEN CallEnvs("none")
                  ELSE {Env("unhealthy", "ok", "none", {}, 0, 0)}) :
          \E r \in {compress_context(enabled, cfg, messages, conversation, force,
                                      cache, stats, perf, now, tz, e)} :
              /\ last' = Last("compress_context",
                              IF force THEN "force" ELSE "none",
                              cfg.preserve_recent_messages, e, Report(r.engine),
                              r.messages, r.meta, r.called)
              /\ cache' = r.engine.cache
              /\ stats' = r.engine.stats
              /\ perf' = r.engine.perf
    /\ UNCHANGED <<cfg, enabled, tz, messages, conversation, now>>

\* engine.cleanup_expired_cache()
CallCleanup ==
    /\ last.n < MaxCalls
    /\ cache # << >>
    /\ \E failing \in BOOLEAN :
          /\ cache' = cleanup_expired_cache(cache, now, failing)
          /\ last' = [last EXCEPT !.op = "cleanup", !.n = @ + 1,
                                  !.cacheLen = Len(cache)]
    /\ UNCHANGED <<cfg, enabled, tz, messages, conversation, now, stats, perf>>

\* an hour passes
Tick ==
    /\ now < StartHour + MaxTicks
    /\ now' = now + 1
    /\ UNCHANGED <<cfg, enabled, tz, messages, conversation, cache, stats, perf, last>>

Next ==
    \/ CallShouldCompress
    \/ CallCompressConversation
    \/ CallCompressContext
    \/ CallCleanup
    \/ Tick

Spec == Init /\ [][Next]_vars

----------------------------------------------------------------------------
(* The strategies on their own: a strategy is built from a configuration   *)
(* and its compress is applied once to a context (messages and             *)
(* preserve_recent_count).                                                 *)

StrategyMessages ==
    {Msg("user", "question"), Msg("assistant", "generic"), Msg("assistant", "code")}

RECURSIVE MessageLists(_)
\* the message lists of length at most n
MessageLists(n) ==
    IF n = 0 THEN {<< >>}
    ELSE MessageLists(n - 1)
         \cup {Append(s, m) : s \in {l \in MessageLists(n - 1) : Len(l) = n - 1},
                              m \in StrategyMessages}

\* importance_threshold 0.3 and 0.6
Thresholds == {30, 60}

BaseConfig ==
    Config(TRUE, TRUE, "rolling_window", TRUE, TRUE, TRUE, 1, 30, 0, 1, 1,
           3, 3000, 80)

InitStrategy ==
    /\ cfg = BaseConfig
    /\ enabled = TRUE
    /\ tz = 0
    /\ messages \in MessageLists(MaxMsgs)
    /\ conversation = NoConv
    /\ now = StartHour
    /\ cache = << >>
    /\ stats = << >>
    /\ perf = << >>
    /\ last = [op |-> "init", n |-> 0, force |-> "none", p |-> 0,
               health |-> "unhealthy", gen |-> "ok", raises |-> "none",
               out |-> NoReport, returned |-> << >>, meta |-> NoMeta,
               called |-> FALSE, cacheLen |-> 0, statsLen |-> 0, perfLen |-> 0]

\* what a strategy run leaves in last
Ran(name, p, health, gen, result) ==
    [last EXCEPT !.op = name, !.n = 1, !.p = p, !.health = health, !.gen = gen,
                 !.out = [NoReport EXCEPT !.selected = name, !.ran = TRUE,
                                          !.result = result],
                 !.returned = result.compressed_messages]

\* RollingWindowStrategy(config).compress(context)
RunRollingWindow ==
    /\ last.op = "init"
    /\ \E window \in 1..MaxWindow, threshold \in Thresholds, p \in 0..MaxPreserve,
          ms \in ElapsedMs :
          \E c \in {[cfg EXCEPT !.window_size = window,
                                !.importance_threshold = threshold,
                                !.preserve_recent_messages = p]} :
            /\ cfg' = c
            /\ last' = Ran("rolling_window", p, "unhealthy", "ok",
                           RollingWindowCompress(c, messages, p, ms))
    /\ UNCHANGED <<enabled, tz, messages, conversation, now, cache, stats, perf>>

\* IntelligentSummaryStrategy(config).compress(context)
RunIntelligentSummary ==
    /\ last.op = "init"
    /\ \E p \in 0..MaxPreserve, gen \in GenOutcomes, ms \in ElapsedMs :
          \E c \in {[cfg EXCEPT !.preserve_recent_messages = p]} :
            /\ cfg' = c
            /\ last' = Ran("intelligent_summary", p, "healthy", gen,
                           IntelligentSummaryCompress(c, messages, p, gen, ms))
    /\ UNCHANGED <<enabled, tz, messages, conversation, now, cache, stats, perf>>

\* the surroundings of a hybrid run, <<health, gen, inner>>: the generator
\* healthy, the summary strategy raising, the generator unhealthy, and
\* is_healthy() raising
HybridEnvs ==
    {<<"healthy", "ok", "none">>, <<"healthy", "ok", "summary">>,
     <<"unhealthy", "ok", "none">>, <<"raises", "raises", "none">>}

\* HybridStrategy(config).compress(context)
RunHybrid ==
    /\ last.op = "init"
    /\ \E tier1 \in 1..MaxTier, tier2 \in 1..MaxTier, window \in 1..MaxWindow,
          p \in 0..MaxPreserve, h \in HybridEnvs, ms \in ElapsedMs :
          \E c \in {[cfg EXCEPT !.tier1_messages = tier1, !.tier2_messages = tier2,
                                !.window_size = window,
                                !.preserve_recent_messages = p]} :
            /\ cfg' = c
            /\ last' = [Ran("hybrid", p, h[1], h[2],
                            HybridCompress(c, messages, h[1], h[2], h[3], ms))
                         EXCEPT !.raises = h[3]]
    /\ UNCHANGED <<enabled, tz, messages, conversation, now, cache, stats, perf>>

NextStrategy ==
    \/ RunRollingWindow
    \/ RunIntelligentSummary
    \/ RunHybrid

SpecStrategy == InitStrategy /\ [][NextStrategy]_vars

----------------------------------------------------------------------------
(* The pure functions on their own: one application of the analyzer's      *)
(* importance score, of the quality score, or of the cache hash to inputs  *)
(* the strategy runs above do not produce.                                 *)

InitFunctions ==
    /\ cfg = BaseConfig
    /\ enabled = TRUE
    /\ tz = 0
    /\ messages = << >>
    /\ conversation = NoConv
    /\ now = StartHour
    /\ cache = << >>
    /\ stats = << >>
    /\ perf = << >>
    /\ last = [op |-> "init", n |-> 0]

\* analyzer.analyze_message_importance(message, position_from_end)
RunImportance ==
    /\ last.op = "init"
    /\ \E role \in Roles, question \in BOOLEAN, code \in BOOLEAN, long \in BOOLEAN,
          keyword \in BOOLEAN, generic \in BOOLEAN, position \in 0..MaxPosition :
          \E sum \in {ImportanceSum(role, question, code, long, keyword, generic,
                                    position)} :
            last' = [op |-> "importance", n |-> 1, role |-> role,
                     question |-> question, code |-> code, long |-> long,
                     keyword |-> keyword, generic |-> generic,
                     position |-> position, sum |-> sum,
                     score |-> ImportanceClamped(sum),
                     half |-> ImportanceReachesHalf(role, question, code, long,
                                                    keyword, generic, position)]
    /\ UNCHANGED <<cfg, enabled, tz, messages, conversation, now, cache, stats, perf>>

\* n plain messages
Plains(n) == [i \in 1..n |-> Msg("user", "plain")]

\* the preserved_info dicts, by which of the counts are positive
PreservedInfos ==
    [questions_preserved : 0..1, code_preserved : 0..1,
     recent_preserved : 0..1, critical_loss : 0..1]

\* strategy.calculate_quality_score(original, compressed, preserved_info)
RunQuality ==
    /\ last.op = "init"
    /\ \E lo \in 0..MaxQualityLen, lc \in 0..MaxQualityLen, info \in PreservedInfos :
          last' = [op |-> "quality", n |-> 1, original |-> lo, compressed |-> lc,
                   info |-> info,
                   score |-> calculate_quality_score(Plains(lo), Plains(lc), info)]
    /\ UNCHANGED <<cfg, enabled, tz, messages, conversation, now, cache, stats, perf>>

\* messages that differ in role, content and the is_summary mark
HashMessages ==
    [role : {"user", "assistant"}, content : {"plain", "question"},
     is_summary : BOOLEAN]

RECURSIVE HashLists(_)
\* the lists of HashMessages of length at most n
HashLists(n) ==
    IF n = 0 THEN {<< >>}
    ELSE HashLists(n - 1)
         \cup {Append(l, m) : l \in {k \in HashLists(n - 1) : Len(k) = n - 1},
                              m \in HashMessages}

\* strategy._create_compression_hash on two message lists
RunHash ==
    /\ last.op = "init"
    /\ \E a \in HashLists(MaxHashLen), b \in HashLists(MaxHashLen) :
          last' = [op |-> "hash", n |-> 1, a |-> a, b |-> b,
                   ha |-> _create_compression_hash(a),
                   hb |-> _create_compression_hash(b)]
    /\ UNCHANGED <<cfg, enabled, tz, messages, conversation, now, cache, stats, perf>>

NextFunctions ==
    \/ RunImportance
    \/ RunQuality
    \/ RunHash

SpecFunctions == InitFunctions /\ [][NextFunctions]_vars

----------------------------------------------------------------------------
(* The cache under concurrent requests.  A request is a thread of the web  *)
(* server inside compress_conversation; it reaches the database one        *)
(* statement at a time, each on a connection of its own, so the            *)
(* statements of the requests, the expiry sweep and the passing of time    *)
(* interleave.  last.reqs holds where each request is and what it has      *)
(* read and computed, last.seq the ids given out by AUTOINCREMENT,         *)
(* last.swept the ids of the rows the sweeps have deleted.                 *)

\* rolling window only, the cache on with a TTL of two hours
CacheConfig ==
    [Config(TRUE, TRUE, "rolling_window", TRUE, FALSE, FALSE, 1, 30, 1, 1, 1,
            3, 3000, 80) EXCEPT !.cache_ttl_hours = 2]

\* the server's local time: UTC, or two hours behind UTC
CacheZones == {0 - 2, 0}

Requests == 1..MaxRequests

\* the clock at the start: 21:00 UTC of day 1
CacheStartHour == StartHour - 2

IdleRequest ==
    [pc |-> "idle", force |-> "none", decision |-> <<FALSE, "none">>,
     picked |-> << >>, at |-> 0, ran |-> FALSE, wrote |-> 0, result |-> NoResult]

InitCache ==
    /\ cfg = CacheConfig
    /\ enabled = TRUE
    /\ tz \in CacheZones
    /\ messages = Alternating(MaxEngineMsgs)
    /\ conversation = 1
    /\ now = CacheStartHour
    /\ cache = << >>
    /\ stats = << >>
    /\ perf = << >>
    /\ last = [op |-> "init", who |-> 0, seq |-> 0, swept |-> {},
               reqs |-> [r \in Requests |-> IdleRequest]]

\* the request r moves on to the record q
Step(op, r, q) ==
    [last EXCEPT !.op = op, !.who = r, !.reqs[r] = q]

\* id INTEGER PRIMARY KEY AUTOINCREMENT: an inserted row gets the id after
\* the last one given out, also when rows have been deleted
Autoincrement(before, after, seq) ==
    IF Len(after) > Len(before)
    THEN [after EXCEPT ![Len(after)].id = seq + 1]
    ELSE after

\* lines 63-71: the request arrives and should_compress decides
Begin(r) ==
    /\ last.reqs[r].pc = "idle"
    /\ \E force \in {"none", "rolling_window"} :
         \E d \in {should_compress(cfg, messages, conversation, stats, now, tz, {})} :
            last' = Step("begin", r,
                         [last.reqs[r] EXCEPT
                            !.force = force, !.decision = d,
                            !.pc = IF ~d[1] /\ force = "none" THEN "done"
                                   ELSE IF cfg.cache_enabled /\ force = "none"
                                   THEN "select" ELSE "run"])
    /\ UNCHANGED <<cfg, enabled, tz, messages, conversation, now, cache, stats, perf>>

\* lines 275-281: the SELECT of _get_cached_compression
Select(r) ==
    /\ last.reqs[r].pc = "select"
    /\ \E pick \in (IF CacheCandidates(cache, messages, now) = {} THEN {0}
                    ELSE CacheCandidates(cache, messages, now)) :
          last' = Step("select", r,
                       IF pick = 0
                       THEN [last.reqs[r] EXCEPT !.pc = "run"]
                       ELSE [last.reqs[r] EXCEPT !.pc = "touch", !.at = now,
                                                 !.picked = <<cache[pick]>>])
    /\ UNCHANGED <<cfg, enabled, tz, messages, conversation, now, cache, stats, perf>>

\* lines 283-305: the UPDATE of the access count by id, and the result
\* built from the row that was read
Touch(r) ==
    /\ last.reqs[r].pc = "touch"
    /\ \E row \in {last.reqs[r].picked[1]} :
         \E at \in (IF \E i \in 1..Len(cache) : cache[i].id = row.id
                    THEN {i \in 1..Len(cache) : cache[i].id = row.id} ELSE {0}) :
            /\ cache' = IF at = 0 THEN cache
                        ELSE _get_cached_compression(cache, at, {}).cache
            /\ last' = Step("touch", r,
                            IF row.original_token_count = 0
                            THEN [last.reqs[r] EXCEPT !.pc = "run", !.picked = << >>]
                            ELSE [last.reqs[r] EXCEPT !.pc = "done",
                                                      !.result = CachedResult(row)])
    /\ UNCHANGED <<cfg, enabled, tz, messages, conversation, now, stats, perf>>

\* lines 80-104: select the strategy and run it
Run(r) ==
    /\ last.reqs[r].pc = "run"
    /\ \E name \in {IF last.reqs[r].force # "none" THEN last.reqs[r].force
                    ELSE _select_best_strategy(cfg, messages, "unhealthy")},
          ms \in ElapsedMs :
          last' = Step("run", r,
                       IF name = "none"
                       THEN [last.reqs[r] EXCEPT !.pc = "done"]
                       ELSE [last.reqs[r] EXCEPT
                               !.pc = "log", !.ran = TRUE,
                               !.result = compress(cfg, name, messages,
                                                   cfg.preserve_recent_messages,
                                                   "unhealthy", "ok", "none", ms)])
    /\ UNCHANGED <<cfg, enabled, tz, messages, conversation, now, cache, stats, perf>>

\* line 107: _log_compression_metrics
LogMetrics(r) ==
    /\ last.reqs[r].pc = "log"
    /\ stats' = _log_compression_metrics(stats, last.reqs[r].result, conversation,
                                         last.reqs[r].decision[2], now, {})
    /\ last' = Step("log", r, [last.reqs[r] EXCEPT !.pc = "put"])
    /\ UNCHANGED <<cfg, enabled, tz, messages, conversation, now, cache, perf>>

\* lines 110-111: _cache_compression_result
Put(r) ==
    /\ last.reqs[r].pc = "put"
    /\ \E after \in {IF cfg.cache_enabled
                     THEN _cache_compression_result(cache, last.reqs[r].result,
                                                    messages, conversation, now, tz,
                                                    cfg.cache_ttl_hours, {})
                     ELSE cache} :
          /\ cache' = Autoincrement(cache, after, last.seq)
          /\ last' = [Step("put", r,
                           [last.reqs[r] EXCEPT
                              !.pc = "perf",
                              !.wrote = IF Len(after) > Len(cache)
                                        THEN last.seq + 1 ELSE 0])
                      EXCEPT !.seq = IF Len(after) > Len(cache) THEN @ + 1 ELSE @]
    /\ UNCHANGED <<cfg, enabled, tz, messages, conversation, now, stats, perf>>

\* lines 114-119: _store_performance_metrics, and the result is returned
StoreMetrics(r) ==
    /\ last.reqs[r].pc = "perf"
    /\ perf' = _store_performance_metrics(perf, last.reqs[r].result,
                                          last.reqs[r].result.strategy_used,
                                          TRUE, "", {})
    /\ last' = Step("perf", r, [last.reqs[r] EXCEPT !.pc = "done"])
    /\ UNCHANGED <<cfg, enabled, tz, messages, conversation, now, cache, stats>>

\* engine.cleanup_expired_cache(), run by anyone at any time
Sweep ==
    /\ cache # << >>
    /\ cache' = cleanup_expired_cache(cache, now, FALSE)
    /\ last' = [last EXCEPT
                  !.op = "cleanup", !.who = 0,
                  !.swept = @ \cup {cache[i].id : i \in
                                      {j \in 1..Len(cache) :
                                         TextGreater(SqlUtc(now), cache[j].expires_at)}}]
    /\ UNCHANGED <<cfg, enabled, tz, messages, conversation, now, stats, perf>>

\* an hour passes
CacheTick ==
    /\ now < CacheStartHour + MaxCacheTicks
    /\ now' = now + 1
    /\ UNCHANGED <<cfg, enabled, tz, messages, conversation, cache, stats, perf, last>>

NextCache ==
    \/ \E r \in Requests : Begin(r)
    \/ \E r \in Requests : Select(r)
    \/ \E r \in Requests : Touch(r)
    \/ \E r \in Requests : Run(r)
    \/ \E r \in Requests : LogMetrics(r)
    \/ \E r \in Requests : Put(r)
    \/ \E r \in Requests : StoreMetrics(r)
    \/ Sweep
    \/ CacheTick

SpecCache == InitCache /\ [][NextCache]_vars

----------------------------------------------------------------------------
(* Properties.  last describes the most recent call: its inputs, what it   *)
(* returned, and the sizes of the tables before it.                        *)

\* the last k elements of s (k at most Len(s))
LastK(s, k) == [i \in 1..k |-> s[Len(s) - k + i]]

\* C1: compress_context on a non-empty list returns the original list or the
\* complete compressed_messages of the result the engine returned; when the
\* engine returns no result or an exception escapes it, the original list is
\* returned with compression_applied = false.
C1_OriginalOrCompressed ==
    (last.op = "compress_context" /\ messages # << >>) =>
        /\ \/ last.returned = messages
           \/ /\ last.called
              /\ last.out.result.present
              /\ last.returned = last.out.result.compressed_messages
        /\ ((last.called /\ ~last.out.result.present)
            \/ last.out.decision[2] = "raised") =>
               /\ last.returned = messages
               /\ last.meta.present
               /\ ~last.meta.compression_applied

\* the engine was called, its strategy raised, and the caller got the
\* original list back
C1_Witness ==
    /\ last.op = "compress_context"
    /\ last.called
    /\ last.out.raised
    /\ last.returned = messages
    /\ Len(messages) = MaxEngineMsgs

\* C2: the last min(preserve_recent_count, len(messages)) messages of the
\* Rolling Window output are the last messages of the input, in order.
C2_RollingKeepsRecent ==
    last.op = "rolling_window" =>
        LET k == Min(last.p, Len(messages))
        IN  /\ Len(last.returned) >= k
            /\ LastK(last.returned, k) = LastK(messages, k)

\* a run that preserved two recent messages and dropped older ones
C2_Witness ==
    /\ last.op = "rolling_window"
    /\ last.p = 2
    /\ Len(messages) = MaxMsgs
    /\ Len(last.returned) < Len(messages)

\* C3 as stated: when Hybrid.can_compress holds, the trailing
\* preserve_recent_count input messages are a suffix of the Hybrid output.
C3_HybridKeepsPreserveCount ==
    (last.op = "hybrid" /\ HybridCanCompress(cfg, messages, last.p)) =>
        /\ Len(last.returned) >= last.p
        /\ LastK(last.returned, last.p) = LastK(messages, last.p)

\* C3 amended: when Hybrid.can_compress holds, the trailing tier1_messages
\* input messages are a suffix of the Hybrid output.
C3_HybridKeepsTier1 ==
    (last.op = "hybrid" /\ HybridCanCompress(cfg, messages, last.p)) =>
        /\ Len(last.returned) >= cfg.tier1_messages
        /\ LastK(last.returned, cfg.tier1_messages)
             = LastK(messages, cfg.tier1_messages)

\* a hybrid run that could compress, with preserve_recent_count above
\* tier1_messages, that dropped a message
C3_Witness ==
    /\ last.op = "hybrid"
    /\ HybridCanCompress(cfg, messages, last.p)
    /\ last.p > cfg.tier1_messages
    /\ Len(last.returned) < Len(messages)

\* C4: each strategy returns at least one message for at least one input
\* message.
C4_NonEmptyOutput ==
    (last.op \in {"rolling_window", "intelligent_summary", "hybrid"}
     /\ Len(messages) >= 1) =>
        Len(last.returned) >= 1

\* a run with preserve_recent_count = 0 on a non-empty list
C4_Witness ==
    /\ last.op \in {"rolling_window", "intelligent_summary", "hybrid"}
    /\ last.p = 0
    /\ Len(messages) = MaxMsgs
    /\ Len(last.returned) >= 1

\* the hour of a CURRENT_TIMESTAMP text
HourOf(stamp) == stamp[1] * 24 + stamp[3]

\* C5: of two unforced compress_conversation calls in immediate succession
\* on the same conversation, with the cache enabled and the first returning
\* a result, the second is served from the cache: metadata.cached is true,
\* compression_time_ms is 0, and the messages are those of the first call.
\* (No store operation fails and no code raises in either call.)
C5_SecondCallCached ==
    [][(/\ last.op = "compress_conversation"
        /\ last.force = "none"
        /\ last.out.result.present
        /\ last.out.failed = {}
        /\ cfg.cache_enabled
        /\ last'.op = "compress_conversation"
        /\ last'.force = "none"
        /\ last'.n = last.n + 1
        /\ now' = now
        /\ last'.out.failed = {}
        /\ ~last'.out.raised
        /\ ~last'.out.escaped)
       => (/\ last'.out.hit
           /\ last'.out.result.present
           /\ last'.out.result.metadata.cached
           /\ last'.out.result.compression_time_ms = 0
           /\ last'.out.result.compressed_messages
                = last.out.result.compressed_messages)]_vars

\* the conversation was compressed within the hour before the last call
CompressedWithinLastHour ==
    /\ conversation # NoConv
    /\ \E i \in 1..last.statsLen :
          /\ stats[i].conversation_id = conversation
          /\ HourOf(stats[i].compression_timestamp) > now - 1

\* the trigger the reason names holds
ReasonHolds(reason) ==
    CASE reason = "token_threshold" ->
            TotalTokens(messages) >= cfg.trigger_token_threshold
      [] reason = "message_threshold" ->
            Len(messages) >= cfg.trigger_message_count
      [] reason = "utilization_threshold" ->
            TotalTokens(messages) * 100 > 80 * 4096
      [] OTHER -> FALSE

\* C6: with compression enabled, a non-empty list and no compression of the
\* conversation within the last hour, the decision is true exactly when the
\* analyzer's compression_candidate flag is true, with a reason whose trigger
\* holds; otherwise it is (false, "no_triggers") and an unforced
\* compress_conversation runs no strategy.
C6_DecisionIsCandidateFlag ==
    (/\ last.op \in {"should_compress", "compress_conversation"}
     /\ cfg.enabled
     /\ messages # << >>
     /\ ~CompressedWithinLastHour
     /\ ~last.out.escaped
     /\ last.out.failed = {}) =>
        /\ last.out.decision[1] = compression_candidate(cfg, messages)
        /\ last.out.decision[1] => ReasonHolds(last.out.decision[2])
        /\ ~last.out.decision[1] =>
              /\ last.out.decision = <<FALSE, "no_triggers">>
              /\ (last.op = "compress_conversation" /\ last.force = "none")
                    => ~last.out.ran

\* an unforced compress_conversation got as far as selecting a strategy
SelectionMade ==
    /\ last.op = "compress_conversation"
    /\ last.force = "none"
    /\ ~last.out.escaped
    /\ last.out.decision[1]
    /\ ~last.out.hit

\* C7 as stated: with intelligent_summary preferred (and enabled) and the
\* generator not healthy, can_compress is false and the selection is rolling_window if
\* Rolling Window is enabled, and otherwise no strategy (no result).
C7_FallbackIsRollingWindow ==
    (SelectionMade /\ cfg.strategy = "intelligent_summary" /\ cfg.is_enabled
     /\ last.health # "healthy") =>
        /\ ~can_compress(cfg, "intelligent_summary", messages, last.p, last.health)
        /\ IF cfg.rw_enabled
           THEN last.out.selected = "rolling_window"
           ELSE last.out.selected = "none" /\ ~last.out.result.present

\* C7 amended: with intelligent_summary preferred (and enabled) and the
\* generator not healthy, can_compress is false and the selection is the first of
\* rolling_window, hybrid that is enabled and can compress the context, and
\* no strategy (no result) when there is none.
C7_FallbackIsFirstAble ==
    (SelectionMade /\ cfg.strategy = "intelligent_summary" /\ cfg.is_enabled
     /\ last.health # "healthy") =>
        /\ ~can_compress(cfg, "intelligent_summary", messages, last.p, last.health)
        /\ IF cfg.rw_enabled /\ Len(messages) > cfg.window_size + 2
           THEN last.out.selected = "rolling_window"
           ELSE IF cfg.hy_enabled
                   /\ Len(messages) > cfg.tier1_messages + cfg.tier2_messages + last.p
           THEN last.out.selected = "hybrid"
           ELSE last.out.selected = "none" /\ ~last.out.result.present

\* intelligent_summary preferred and enabled, the generator unhealthy,
\* Rolling Window disabled: hybrid was selected
C7_Witness ==
    /\ SelectionMade
    /\ cfg.strategy = "intelligent_summary"
    /\ cfg.is_enabled
    /\ last.health = "unhealthy"
    /\ ~cfg.rw_enabled
    /\ last.out.selected = "hybrid"

\* C8 as stated: when the selected strategy's compress raises,
\* compress_conversation raises nothing, returns no result, records one
\* performance-metrics entry with success = false and the error text, and
\* writes no cache entry and no compression-stats entry.
C8_FailureRecordedOnce ==
    (last.op = "compress_conversation" /\ last.out.raised) =>
        /\ ~last.out.escaped
        /\ ~last.out.result.present
        /\ Len(perf) = last.perfLen + 1
        /\ ~perf[Len(perf)].success
        /\ perf[Len(perf)].error_message = "error"
        /\ Len(cache) = last.cacheLen
        /\ Len(stats) = last.statsLen

\* C8 amended: the same, except that no performance-metrics entry is
\* recorded when the insert into the metrics store itself fails.
C8_FailureRecordedUnlessStoreFails ==
    (last.op = "compress_conversation" /\ last.out.raised) =>
        /\ ~last.out.escaped
        /\ ~last.out.result.present
        /\ IF "perf_put" \in last.out.failed
           THEN Len(perf) = last.perfLen
           ELSE /\ Len(perf) = last.perfLen + 1
                /\ ~perf[Len(perf)].success
                /\ perf[Len(perf)].error_message = "error"
                /\ perf[Len(perf)].compression_strategy = last.out.selected
        /\ Len(cache) = last.cacheLen
        /\ Len(stats) = last.statsLen

\* the strategy raised in a call with a conversation id and the cache
\* enabled, and the failure was recorded
C8_Witness ==
    /\ last.op = "compress_conversation"
    /\ last.out.raised
    /\ conversation # NoConv
    /\ cfg.cache_enabled
    /\ Len(perf) = last.perfLen + 1
    /\ ~perf[Len(perf)].success

\* C9: when the generator raises during an Intelligent Summary run through
\* the engine, the attempt is recorded with success = false, the engine
\* returns no result, and nothing is cached.  (No store operation fails.)
C9_GeneratorFailureCaught ==
    (/\ last.op = "compress_conversation"
     /\ last.out.ran
     /\ last.out.selected = "intelligent_summary"
     /\ last.gen = "raises"
     /\ Len(messages) > last.p
     /\ last.out.failed = {}) =>
        /\ ~last.out.result.present
        /\ Len(perf) = last.perfLen + 1
        /\ ~perf[Len(perf)].success
        /\ Len(cache) = last.cacheLen

\* C10 as stated: with compression disabled and not forced, compress_context
\* returns the original messages with metadata carrying
\* compression_applied = false and a reason code.
C10_DisabledReturnsReason ==
    (last.op = "compress_context" /\ ~enabled /\ last.force = "none") =>
        /\ last.returned = messages
        /\ last.meta.present
        /\ ~last.meta.compression_applied
        /\ last.meta.reason # "none"

\* C10 amended: with compression disabled and not forced, compress_context
\* returns the original messages and no metadata, without calling the engine
\* or writing to a store.
C10_DisabledReturnsNoMetadata ==
    (last.op = "compress_context" /\ ~enabled /\ last.force = "none") =>
        /\ last.returned = messages
        /\ ~last.meta.present
        /\ ~last.called
        /\ Len(cache) = last.cacheLen
        /\ Len(stats) = last.statsLen
        /\ Len(perf) = last.perfLen

\* compress_context was called unforced on a conversation over the triggers
\* with compression disabled
C10_Witness ==
    /\ last.op = "compress_context"
    /\ ~enabled
    /\ last.force = "none"
    /\ Len(messages) = MaxEngineMsgs
    /\ last.returned = messages

\* C11: compress_context with force = true on a non-empty conversation
\* compresses even when should_compress reports false: when some strategy
\* can compress the messages, a strategy is executed and its compressed
\* messages are returned with compression_applied = true.  (No store
\* operation fails and no code raises.)
C11_ForceCompresses ==
    (/\ last.op = "compress_context"
     /\ last.force = "force"
     /\ messages # << >>
     /\ last.raises = "none"
     /\ last.out.failed = {}
     /\ ~last.out.decision[1]
     /\ _select_best_strategy(cfg, messages, last.health) # "none") =>
        /\ last.out.ran
        /\ last.meta.present
        /\ last.meta.compression_applied
        /\ last.returned = last.out.result.compressed_messages

\* C12: the Rolling Window output has at most preserve_recent_count +
\* window_size messages.
C12_RollingWindowBounded ==
    last.op = "rolling_window" =>
        Len(last.returned) <= last.p + cfg.window_size

\* how often m occurs in s
Occurrences(s, m) == Cardinality({i \in 1..Len(s) : s[i] = m})

\* every older message with a fenced code block is in the output as often as
\* in the input
CodeRetained ==
    LET older == OlderMessages(messages, last.p)
    IN  \A i \in 1..Len(older) :
           _contains_code(older[i].content) =>
              Occurrences(last.returned, older[i]) >= Occurrences(messages, older[i])

\* C13 as stated: with importance threshold 0.3, a message outside the
\* recent window that contains a fenced code block is always retained in the
\* Rolling Window output.
C13_CodeAlwaysRetained ==
    (last.op = "rolling_window" /\ cfg.importance_threshold = 30) => CodeRetained

\* C13 amended: with importance threshold 0.3, a message outside the recent
\* window that contains a fenced code block always passes the importance
\* filter, and it is retained in the output whenever at most window_size
\* older messages pass the filter.
C13_CodeRetainedWithinWindow ==
    (last.op = "rolling_window" /\ cfg.importance_threshold = 30) =>
        LET older == OlderMessages(messages, last.p)
            passing == {i \in 1..Len(older) :
                          analyze_message_importance(older[i], Len(older) - i) >= 30}
        IN  /\ \A i \in 1..Len(older) :
                  _contains_code(older[i].content) => i \in passing
            /\ Cardinality(passing) <= cfg.window_size => CodeRetained

\* a run at threshold 0.3 with a code message among the older ones, within
\* the window size, that dropped another message
C13_Witness ==
    /\ last.op = "rolling_window"
    /\ cfg.importance_threshold = 30
    /\ LET older == OlderMessages(messages, last.p)
       IN  /\ \E i \in 1..Len(older) : _contains_code(older[i].content)
           /\ Len(ImportantFrom(older, 30, 1)) <= cfg.window_size
    /\ Len(last.returned) < Len(messages)

\* b is a with its messages in another order
Reordered(a, b) ==
    /\ Len(a) = Len(b)
    /\ a # b
    /\ \E f \in [1..Len(a) -> 1..Len(a)] :
          /\ \A i, j \in 1..Len(a) : f[i] = f[j] => i = j
          /\ \A i \in 1..Len(a) : b[i] = a[f[i]]

\* the ordered contents of a message list
Contents(msgs) == [i \in 1..Len(msgs) |-> msgs[i].content]

\* C14 as stated: two message lists that differ only in the order of their
\* messages receive different hashes.
C14_ReorderedListsDiffer ==
    (last.op = "hash" /\ Reordered(last.a, last.b)) => last.ha # last.hb

\* C14 amended: two message lists whose ordered content sequences differ,
\* among them every reordering that changes the order of the contents,
\* receive different hashes; a reordering that leaves the content sequence
\* the same receives the same hash.
C14_ContentOrderDecides ==
    last.op = "hash" =>
        (last.ha = last.hb <=> Contents(last.a) = Contents(last.b))

\* two lists that are reorderings of each other with different content
\* sequences, and different hashes
C14_Witness ==
    /\ last.op = "hash"
    /\ Reordered(last.a, last.b)
    /\ Contents(last.a) # Contents(last.b)
    /\ last.ha # last.hb

\* C15: two lists with the same sequence of content strings get the same
\* hash, whatever the roles and the other fields of the messages.
C15_HashOfContentsOnly ==
    (last.op = "hash" /\ Contents(last.a) = Contents(last.b)) => last.ha = last.hb

\* two non-empty lists with the same contents and different roles
C15_Witness ==
    /\ last.op = "hash"
    /\ Len(last.a) = MaxHashLen
    /\ Contents(last.a) = Contents(last.b)
    /\ \E i \in 1..Len(last.a) : last.a[i].role # last.b[i].role
    /\ last.ha = last.hb

\* C16: the importance score is in [0.0, 1.0], and the sum before the final
\* min(1.0, ...) is already at least 0.
C16_ImportanceInUnitRange ==
    last.op = "importance" =>
        /\ last.sum >= 0
        /\ last.score >= 0
        /\ last.score <= 100

\* a message whose sum exceeds 1.0, scored 1.0
C16_Witness ==
    /\ last.op = "importance"
    /\ last.sum > 100
    /\ last.score = 100

\* C17: the quality score is in [0, 1].
C17_QualityInUnitRange ==
    last.op = "quality" => (last.score >= 0 /\ last.score <= 100)

\* a single-message conversation kept whole with every bonus, and no loss
C17_Witness ==
    /\ last.op = "quality"
    /\ last.original = 1
    /\ last.compressed = 1
    /\ last.info.questions_preserved > 0
    /\ last.info.code_preserved > 0
    /\ last.info.recent_preserved > 0
    /\ last.info.critical_loss = 0
    /\ last.score = 60

CacheAndMetricsOps == {"lookup", "touch", "cache_put", "stats_put", "perf_put"}

\* C19: when cache or metrics operations fail during compress_conversation
\* (and the code raises nowhere else), nothing is raised and the call
\* returns what the selected strategy produces: a failed lookup or
\* access-count update is a cache miss, a failed insert leaves its table as
\* it was.
C19_StoreFailuresAreSilent ==
    (/\ last.op = "compress_conversation"
     /\ last.out.failed # {}
     /\ last.out.failed \subseteq CacheAndMetricsOps
     /\ last.raises \notin {"analyzer", "strategy"}) =>
        /\ ~last.out.escaped
        /\ ~last.out.hit
        /\ last.out.ran <=> last.out.selected # "none"
        /\ last.out.result
             = IF last.out.selected = "none" THEN NoResult
               ELSE compress(cfg, last.out.selected, messages, last.p,
                             last.health, last.gen, last.raises,
                             last.out.result.compression_time_ms)
        /\ "cache_put" \in last.out.failed => Len(cache) = last.cacheLen
        /\ "stats_put" \in last.out.failed => Len(stats) = last.statsLen
        /\ "perf_put" \in last.out.failed => Len(perf) = last.perfLen

\* the cache held a row for the conversation, reading it failed, and the
\* strategy ran and returned its result
C19_Witness ==
    /\ last.op = "compress_conversation"
    /\ last.out.failed \cap {"lookup", "touch"} # {}
    /\ last.cacheLen > 0
    /\ last.out.ran
    /\ last.out.result.present

\* C20: should_compress gives (false, compression_disabled) when disabled,
\* else (false, no_messages) for an empty list, else (false,
\* recently_compressed) when the conversation was compressed within the last
\* hour, without reaching the analyzer.  (No store operation fails.)
C20_EarlyReturns ==
    (/\ \/ last.op = "should_compress"
        \/ last.op = "compress_conversation" /\ messages # << >>
     /\ last.out.failed = {}) =>
        IF ~cfg.enabled
        THEN last.out.decision = <<FALSE, "compression_disabled">>
        ELSE IF messages = << >>
        THEN last.out.decision = <<FALSE, "no_messages">>
        ELSE CompressedWithinLastHour =>
                last.out.decision = <<FALSE, "recently_compressed">>

RECURSIVE IsSubsequence(_, _)
\* a is b with some elements left out, the others in the order of b
IsSubsequence(a, b) ==
    IF a = << >> THEN TRUE
    ELSE IF b = << >> THEN FALSE
    ELSE IF Head(a) = Head(b) THEN IsSubsequence(Tail(a), Tail(b))
    ELSE IsSubsequence(a, Tail(b))

\* C27: the Rolling Window output is the kept older messages in their
\* original relative order, followed by the recent slice, also when the
\* window size limit applies.
C27_KeptInOriginalOrder ==
    last.op = "rolling_window" =>
        LET recent == RecentMessages(messages, last.p)
            older == OlderMessages(messages, last.p)
            k == Len(last.returned) - Len(recent)
        IN  /\ k >= 0
            /\ LastK(last.returned, Len(recent)) = recent
            /\ IsSubsequence(SubSeq(last.returned, 1, k), older)

\* the part of the hybrid output in front of the kept tier-2 messages and
\* tier 1
Tier3Output ==
    SubSeq(last.returned, 1,
           Len(last.returned) - Len(HybridTier2Part(cfg, messages))
           - Len(HybridTier1(cfg, messages)))

\* C28: in a Hybrid run with a non-empty tier 3 the output is the tier-3
\* part, the tier-2 messages with importance at least 0.4, and tier 1; the
\* tier-3 part is exactly one is_summary message when Intelligent Summary is
\* usable (it can compress and its compress does not raise), and otherwise
\* the Rolling Window result on tier 3.
C28_Tier3SummarizedOrReduced ==
    (last.op = "hybrid" /\ HybridTier3(cfg, messages) # << >>) =>
        /\ Len(last.returned) >= Len(HybridTier2Part(cfg, messages))
                                 + Len(HybridTier1(cfg, messages))
        /\ last.returned = Tier3Output \o HybridTier2Part(cfg, messages)
                           \o HybridTier1(cfg, messages)
        /\ IF SummaryCanCompress(cfg, last.health) /\ last.raises # "summary"
           THEN /\ Len(Tier3Output) = 1
                /\ Tier3Output[1].is_summary
           ELSE Tier3Output
                = RollingWindowCompress(cfg, HybridTier3(cfg, messages), 2, 3).compressed_messages

\* C29: in every Hybrid run tier 3, tier 2 and tier 1, in this order, make
\* up the input list.
C29_TiersPartitionInput ==
    last.op = "hybrid" =>
        HybridTier3(cfg, messages) \o HybridTier2(cfg, messages)
        \o HybridTier1(cfg, messages) = messages

\* C30 as stated: analyze_message_importance returns at least 0.5 for every
\* message whose role is user.
C30_UserAtLeastHalf ==
    (last.op = "importance" /\ last.role = "user") => last.half

\* C30 amended: for a message whose role is user the decimal sum of the
\* score is at least 0.5, so the score is above 0.4: the message is no
\* compression candidate (score < 0.4) and passes Hybrid's tier-2 filter
\* (score >= 0.4); the returned double is at least 0.5 except for a content
\* that matches a generic pattern and nothing else at position 20 or more,
\* where it is 0.49999999999999994.
C30_UserAboveCandidateLimit ==
    (last.op = "importance" /\ last.role = "user") =>
        /\ last.score >= 50
        /\ ~(last.score < 40)
        /\ last.half <=> ~(/\ last.generic
                           /\ ~last.question /\ ~last.code
                           /\ ~last.long /\ ~last.keyword
                           /\ last.position >= 20)

\* a user message with a generic pattern at position 20: decimal sum 0.5,
\* returned double below 0.5
C30_Witness ==
    /\ last.op = "importance"
    /\ last.role = "user"
    /\ last.generic
    /\ last.position = 20
    /\ last.score = 50
    /\ ~last.half

\* the named strategy is enabled and its can_compress holds in the last call
Able(name) ==
    /\ StrategyEnabled(cfg, name)
    /\ can_compress(cfg, name, messages, last.p, last.health)

\* the preferred strategy if able, else the first able one in the fixed
\* order, else "none"
ExpectedStrategy ==
    IF Able(cfg.strategy) THEN cfg.strategy
    ELSE IF Able("rolling_window") THEN "rolling_window"
    ELSE IF Able("intelligent_summary") THEN "intelligent_summary"
    ELSE IF Able("hybrid") THEN "hybrid"
    ELSE "none"

\* a compress_conversation call, forced or triggered, that got past the
\* trigger decision and the cache
SelectionReached ==
    /\ last.op = "compress_conversation"
    /\ messages # << >>
    /\ ~last.out.escaped
    /\ last.force # "none" \/ last.out.decision[1]
    /\ ~last.out.hit

\* C21 as stated: whenever compress_conversation executes a strategy,
\* triggered or forced, it is the preferred strategy if enabled and able,
\* else the first enabled and able one in the fixed order; no strategy is
\* run and no result returned exactly when none can compress.
C21_SelectedAlsoWhenForced ==
    SelectionReached =>
        /\ last.out.ran => last.out.selected = ExpectedStrategy
        /\ (~last.out.ran /\ ~last.out.result.present) <=> ExpectedStrategy = "none"

\* C21 amended: an unforced compress_conversation that needs a strategy
\* runs the preferred strategy if enabled and able, else the first enabled
\* and able one in the fixed order, and runs none and returns no result
\* exactly when none can compress; a forced one runs the strategy named by
\* force_strategy, whatever the preference, the enabled flags and
\* can_compress say.
C21_SelectedUnlessForced ==
    SelectionReached =>
        IF last.force = "none"
        THEN /\ last.out.selected = ExpectedStrategy
             /\ last.out.ran <=> ExpectedStrategy # "none"
             /\ ExpectedStrategy = "none" => ~last.out.result.present
        ELSE /\ last.out.ran
             /\ last.out.selected = last.force
             /\ ~last.out.raised =>
                   /\ last.out.result.present
                   /\ last.out.result.strategy_used = last.force

\* a forced run of a strategy that is disabled, while the selection would
\* have taken another one
C21_Witness ==
    /\ SelectionReached
    /\ last.force # "none"
    /\ ~StrategyEnabled(cfg, last.force)
    /\ ExpectedStrategy \notin {"none", last.force}
    /\ last.out.result.present
    /\ last.out.result.strategy_used = last.force

\* the cache rows a lookup for the conversation finds: same content hash,
\* not expired
LiveEntries ==
    {i \in 1..Len(cache) :
        /\ cache[i].context_hash = _create_compression_hash(messages)
        /\ TextGreater(cache[i].expires_at, SqlUtc(now))}

\* C22: an unforced compress_conversation that needs compression, with
\* caching enabled and a non-expired entry with the same content hash, runs
\* no strategy, returns the stored messages of an entry marked cached, adds
\* one to the access count of that entry and changes nothing else in the
\* cache; a forced call does not read the cache (no hit, no access count
\* changed).  (No store operation fails and no code raises.)
C22_HitServesStoredEntry ==
    [][(/\ last'.op = "compress_conversation"
        /\ last'.n = last.n + 1
        /\ last'.out.failed = {}
        /\ ~last'.out.raised
        /\ ~last'.out.escaped)
       => (/\ (/\ last'.force = "none"
               /\ cfg.cache_enabled
               /\ last'.out.decision[1]
               /\ LiveEntries # {})
              => /\ last'.out.hit
                 /\ ~last'.out.ran
                 /\ last'.out.result.present
                 /\ last'.out.result.metadata.cached
                 /\ stats' = stats
                 /\ perf' = perf
                 /\ \E i \in LiveEntries :
                       /\ last'.out.result.compressed_messages
                            = JsonLoads(cache[i].compressed_context)
                       /\ cache' = [cache EXCEPT ![i].access_count = @ + 1]
           /\ last'.force # "none"
              => /\ ~last'.out.hit
                 /\ Len(cache') >= Len(cache)
                 /\ SubSeq(cache', 1, Len(cache)) = cache)]_vars

\* the hour at which a cache row expires: its creation time plus the TTL
ExpiryHour(row) == HourOf(row.created_at) + cfg.cache_ttl_hours

\* C23: the cache lookup returns an entry only while now < expires_at, its
\* creation time plus the configured TTL.
C23_ReturnedOnlyBeforeExpiry ==
    \A r \in Requests :
        last.reqs[r].picked # << >> =>
            last.reqs[r].at < ExpiryHour(last.reqs[r].picked[1])

\* both requests were unforced, missed the cache, ran the strategy and
\* returned
BothRan ==
    \A r \in Requests :
        /\ last.reqs[r].pc = "done"
        /\ last.reqs[r].force = "none"
        /\ last.reqs[r].ran

\* C24: when two concurrent unforced requests for the same content hash
\* both miss the cache, each returns the complete result of the strategy,
\* the strategy has been executed at most twice, and a lookup of the hash
\* made afterwards, if it finds a non-expired entry, returns the one written
\* last.
C24_LastWriteWins ==
    BothRan =>
        /\ \A r \in Requests :
              \E ms \in ElapsedMs :
                 last.reqs[r].result
                   = RollingWindowCompress(cfg, messages,
                                           cfg.preserve_recent_messages, ms)
        /\ Len(perf) <= 2
        /\ \A i \in CacheCandidates(cache, messages, now) :
              \A r \in Requests : cache[i].id >= last.reqs[r].wrote

C26_SweepRemovesOnlyExpired ==
    [][last'.op = "cleanup" =>
          /\ cache' = SelectSeq(cache, LAMBDA row : \E i \in 1..Len(cache') : cache'[i] = row)
          /\ \A i \in 1..Len(cache) :
                (\A j \in 1..Len(cache') : cache'[j] # cache[i]) =>
                    ExpiryHour(cache[i]) <= now
          /\ stats' = stats
          /\ perf' = perf
          /\ last'.reqs = last.reqs]_vars

====
